---- MODULE Spec2Model ----
(***************************************************************************)
(* forwardBot: the Bot orchestrator (src/bot.go) and the bilibili sources  *)
(* (src/unnamed/part_000): BiliLiveSource, the live-status poller, and     *)
(* BiliDynamicSource, the feed poller.                                     *)
(*                                                                         *)
(* Every goroutine is a process with a program counter.  A goroutine's     *)
(* step runs from one suspension point (a select, a channel send) to the   *)
(* next.  Strings built with fmt.Sprintf are sequences of their pieces.    *)
(* Variables that are not program state but a record of what happened      *)
(* (history variables) are marked "history".                               *)
(***************************************************************************)
EXTENDS Integers, Sequences, FiniteSets, TLC

(***************************************************************************)
(* Program constants                                                       *)
(***************************************************************************)
BiliLiveMsg == 1
BiliDynMsg == 2
interval == 10
NoLiveRoomCode == 400

liveUrlPrefix == "https://live.bilibili.com/"
dynamicUrlPrefix == "https://t.bilibili.com/"
videoUrlPrefix == "https://www.bilibili.com/video/"
articleUrlPrefix == "https://www.bilibili.com/read/cv"
musicUrlPrefix == "https://www.bilibili.com/audio/au"

DynamicTypeForward == "DYNAMIC_TYPE_FORWARD"
DynamicTypeDraw == "DYNAMIC_TYPE_DRAW"
DynamicTypeAV == "DYNAMIC_TYPE_AV"
DynamicTypeWord == "DYNAMIC_TYPE_WORD"
DynamicTypeArticle == "DYNAMIC_TYPE_ARTICLE"
DynamicTypeMusic == "DYNAMIC_TYPE_MUSIC"
DynamicTypePGC == "DYNAMIC_TYPE_PGC"
DynamicTypeLive == "DYNAMIC_TYPE_LIVE_RCMD"

\* info.types as parseDynamic sets it (Chinese in the source)
TypesPost == "posted"
TypesVideo == "video submission"
TypesForward == "repost"
TypesShareLive == "shared live room"
TypesArticle == "article submission"
TypesMusic == "audio submission"
TextUnhandled == "unhandled type"
TitleFetchFailed == "failed to fetch live status"
TitleWentLive == "went live"
TitleWentOffline == "went offline"
TextOffline == "(crying faces)"
MsgNoLiveRoom == "no live_room field in response"

(***************************************************************************)
(* Bounds and input sets of the model                                      *)
(***************************************************************************)
MaxLiveTicks == 3
MaxDynTicks == 2
MaxPage == 2
MaxBuf == 1
MaxBotTicks == 2
MaxFanTicks == 1
MaxScanPage == 3

T0 == 2001 * interval
LiveUids == <<42, 7>>
Sinks == <<"s1", "s2">>
DynUids == <<7, 42>>
UpstreamErrors == {[code |-> -404, msg |-> "not found"]}
LiveRooms ==
    {[liveStatus |-> 1, roomid |-> 100, title |-> "hello", cover |-> "c.jpg"],
     [liveStatus |-> 0, roomid |-> 100, title |-> "hello", cover |-> "c.jpg"],
     [liveStatus |-> 2, roomid |-> 100, title |-> "hello", cover |-> "c.jpg"]}

Range(s) == {s[i] : i \in DOMAIN s}

(***************************************************************************)
(* Go maps: a function whose domain is the set of keys present; reading an *)
(* absent key gives the zero value.                                        *)
(***************************************************************************)
MapGet(m, k, zero) == IF k \in DOMAIN m THEN m[k] ELSE zero
MapPut(m, k, v) == [x \in DOMAIN m \cup {k} |-> IF x = k THEN v ELSE m[x]]
EmptyMap == [x \in {} |-> FALSE]

VARIABLES
    ctxDone,    \* the context passed to Bot.Run is cancelled
    buf,        \* capacity of Bot.ch
    sources,    \* Bot.sources: which sources were appended
    sinks,      \* Bot.sinks, in the order appended
    ch,         \* Bot.ch: the buffered messages, oldest first
    emitted,    \* history: ids of the messages whose send on ch completed, in order
    botPc,      \* Bot.Run: "init", "loop", "stopped"
    dequeued,   \* history: ids of the messages Bot.Run received, in order
    tasks,      \* the goroutines Bot.Run started for the sinks, in the order started
    nmsg,       \* history: number of push.Msg values built so far
    liveUid,    \* BiliLiveSource.uid
    living,     \* BiliLiveSource.living
    livePc,     \* BiliLiveSource.Send: "unstarted", "select", "loop", "send", "stopped"
    liveTick,   \* number of ticks BiliLiveSource.Send has taken from its ticker
    liveIdx,    \* position of the range loop over BiliLiveSource.uid
    liveOut,    \* messages the current iteration still has to send on ch
    lastPoll,   \* history: the last iteration of the range loop
    lastOk,     \* history: per uid, status reported by the last successful poll
    chain       \* history: per uid, the last poll that was no transport failure,
                \* whether a transport failure followed it, and the number of
                \* messages built for the uid since

VARIABLES
    dynUid,     \* BiliDynamicSource.uid
    lastTable,  \* BiliDynamicSource.lastTable
    dynPc,      \* BiliDynamicSource.Send: "unstarted", "select", "loop", "send", "stopped"
    dynTick,    \* number of ticks BiliDynamicSource.Send has taken from its ticker
    dynIdx,     \* position of the range loop over BiliDynamicSource.uid
    dynInfos,   \* the infos of the current account not yet turned into a message
    dynOut,     \* the message built from an info and being sent on ch
    dynBuilt,   \* history: per uid and item, the messages built from the item
    lastFeed    \* history: the last call of space

dynHist == <<dynBuilt, lastFeed>>
dynVars == <<dynUid, lastTable, dynPc, dynTick, dynIdx, dynInfos, dynOut, dynHist>>

ctlVars == <<ctxDone, buf, sources, sinks>>
chanVars == <<ch, emitted>>
loopVars == <<botPc, dequeued, tasks>>
liveHist == <<lastPoll, lastOk, chain>>
liveVars == <<liveUid, living, livePc, liveTick, liveIdx, liveOut, liveHist>>
vars == <<ctlVars, chanVars, loopVars, nmsg, liveVars, dynVars>>

(***************************************************************************)
(* getInfo and the responses of req.Get                                    *)
(***************************************************************************)
ZeroLiveInfo ==
    [Code |-> 0, Msg |-> "", Mid |-> 0, Uname |-> "", LiveStatus |-> FALSE,
     RoomId |-> 0, Title |-> "", Cover |-> ""]

NoRoom == [absent |-> TRUE]

\* What req.Get(infoUrl, mid) can give: a transport error, an empty body, or
\* a JSON body with code/msg and, under data, name and live_room.
LiveResponses ==
    {[kind |-> "neterr"], [kind |-> "empty"]}
    \cup {[kind |-> "json", code |-> e.code, msg |-> e.msg, name |-> "",
           live_room |-> NoRoom] : e \in UpstreamErrors}
    \cup {[kind |-> "json", code |-> 0, msg |-> "", name |-> "up",
           live_room |-> r] : r \in LiveRooms \cup {NoRoom}}

checkResp(resp) ==
    IF resp.kind \in {"empty"} THEN [err |-> "ErrEmptyRespData"] ELSE [err |-> "nil"]

\* getInfo without the live_room presence check: gjson gives zero values.
getInfoNoRoomCheck(mid, resp) ==
    IF resp.kind # "json"
    THEN [err |-> "err", info |-> ZeroLiveInfo]
    ELSE IF resp.code # 0
    THEN [err |-> "nil",
          info |-> [ZeroLiveInfo EXCEPT !.Code = resp.code, !.Msg = resp.msg]]
    ELSE IF resp.live_room = NoRoom
    THEN [err |-> "nil", info |-> [ZeroLiveInfo EXCEPT !.Mid = mid, !.Uname = resp.name]]
    ELSE [err |-> "nil",
          info |-> [ZeroLiveInfo EXCEPT !.Mid = mid, !.Uname = resp.name,
                                        !.LiveStatus = (resp.live_room.liveStatus = 1),
                                        !.RoomId = resp.live_room.roomid,
                                        !.Title = resp.live_room.title,
                                        !.Cover = resp.live_room.cover]]

\* getInfo reporting an empty body as a soft error instead of returning err.
getInfoEmptyIsSoft(mid, resp) ==
    IF resp.kind = "neterr"
    THEN [err |-> "neterr", info |-> ZeroLiveInfo]
    ELSE IF resp.kind = "empty"
    THEN [err |-> "nil",
          info |-> [ZeroLiveInfo EXCEPT !.Code = NoLiveRoomCode, !.Msg = "empty data"]]
    ELSE IF resp.code # 0
    THEN [err |-> "nil",
          info |-> [ZeroLiveInfo EXCEPT !.Code = resp.code, !.Msg = resp.msg]]
    ELSE IF resp.live_room = NoRoom
    THEN [err |-> "nil",
          info |-> [ZeroLiveInfo EXCEPT !.Mid = mid, !.Uname = resp.name,
                                        !.Code = NoLiveRoomCode, !.Msg = MsgNoLiveRoom]]
    ELSE [err |-> "nil",
          info |-> [ZeroLiveInfo EXCEPT !.Mid = mid, !.Uname = resp.name,
                                        !.LiveStatus = (resp.live_room.liveStatus = 1),
                                        !.RoomId = resp.live_room.roomid,
                                        !.Title = resp.live_room.title,
                                        !.Cover = resp.live_room.cover]]

getInfo(mid, resp) ==
    IF resp.kind = "neterr"
    THEN [err |-> "neterr", info |-> ZeroLiveInfo]
    ELSE IF checkResp(resp).err # "nil"
    THEN [err |-> "read bili resp data", info |-> ZeroLiveInfo]
    ELSE IF resp.code # 0
    THEN [err |-> "nil",
          info |-> [ZeroLiveInfo EXCEPT !.Code = resp.code, !.Msg = resp.msg]]
    ELSE IF resp.live_room = NoRoom
    THEN [err |-> "nil",
          info |-> [ZeroLiveInfo EXCEPT !.Mid = mid, !.Uname = resp.name,
                                        !.Code = NoLiveRoomCode, !.Msg = MsgNoLiveRoom]]
    ELSE [err |-> "nil",
          info |-> [ZeroLiveInfo EXCEPT !.Mid = mid, !.Uname = resp.name,
                                        !.LiveStatus = (resp.live_room.liveStatus = 1),
                                        !.RoomId = resp.live_room.roomid,
                                        !.Title = resp.live_room.title,
                                        !.Cover = resp.live_room.cover]]

(***************************************************************************)
(* BiliLiveSource.Send: one iteration of "for _, id := range b.uid"        *)
(***************************************************************************)
NewMsg(n, times, flag, author) ==
    [id |-> n, Times |-> times, Flag |-> flag, Author |-> author,
     Title |-> "", Text |-> <<>>, Img |-> <<>>, Src |-> <<>>]

\* The message of an iteration that did not "continue".
LiveMsg(n, now, info) ==
    LET msg == NewMsg(n, now, BiliLiveMsg, info.Uname)
    IN  IF info.Code # 0
        THEN [msg EXCEPT !.Title = TitleFetchFailed,
                         !.Text = <<"[error] ", info.Msg, ", code=", ToString(info.Code)>>]
        ELSE IF info.LiveStatus
        THEN [msg EXCEPT !.Title = TitleWentLive,
                         !.Text = <<"title: \"", info.Title, "\"">>,
                         !.Img = <<info.Cover>>,
                         !.Src = <<liveUrlPrefix, ToString(info.RoomId)>>]
        ELSE [msg EXCEPT !.Title = TitleWentOffline, !.Text = <<TextOffline>>]

\* LiveTable that forgets to record the new status.
LiveTableNoRecord(liv, info) == liv

\* LiveTable that records the status of a failed poll too.
LiveTableAlways(liv, info) == MapPut(liv, info.Mid, info.LiveStatus)

\* The b.living of after the iteration.
LiveTable(liv, info) ==
    IF info.Code # 0 THEN liv ELSE MapPut(liv, info.Mid, info.LiveStatus)

\* LiveSkips comparing only against an entry that is present.
LiveSkipsPresentOnly(liv, r) ==
    \/ r.err # "nil"
    \/ /\ r.info.Code = 0
       /\ r.info.Mid \in DOMAIN liv
       /\ r.info.LiveStatus = liv[r.info.Mid]

\* The iteration "continue"s with nothing sent: a failed fetch, or a status
\* equal to the recorded one.
LiveSkips(liv, r) ==
    \/ r.err # "nil"
    \/ r.info.Code = 0 /\ r.info.LiveStatus = MapGet(liv, r.info.Mid, FALSE)

\* [living, out]: the table and the messages to send after the iteration.
LiveIteration(liv, r, now, n) ==
    IF LiveSkips(liv, r)
    THEN [living |-> liv, out |-> <<>>]
    ELSE [living |-> LiveTable(liv, r.info), out |-> <<LiveMsg(n + 1, now, r.info)>>]

TickTime(k) == T0 + k * interval

NoPoll == [uid |-> 0, seq |-> 0]

\* pc and index after the iteration at index i is over
LiveAdvance(i) ==
    IF i < Len(liveUid)
    THEN /\ livePc' = "loop"
         /\ liveIdx' = i + 1
    ELSE /\ livePc' = "select"
         /\ liveIdx' = 0

StatusName(b) == IF b THEN "live" ELSE "off"

\* What the platform answered, read off the response itself: a transport
\* failure (no body), an upstream error (non-zero code, or no live_room), or
\* a successful poll, which reports live exactly when liveStatus is 1.
RespKind(resp) ==
    IF resp.kind # "json" THEN "transport"
    ELSE IF resp.code # 0 \/ resp.live_room = NoRoom THEN "upstream"
    ELSE "ok"

RespLive(resp) == resp.live_room.liveStatus = 1

\* case now := <-ticker.C
LiveTick(limit) ==
    /\ livePc = "select"
    /\ liveTick < limit
    /\ liveTick' = liveTick + 1
    /\ IF Len(liveUid) = 0
       THEN UNCHANGED <<livePc, liveIdx>>
       ELSE livePc' = "loop" /\ liveIdx' = 1
    /\ UNCHANGED <<liveUid, living, liveOut, liveHist>>
    /\ UNCHANGED <<ctlVars, chanVars, loopVars, nmsg, dynVars>>

\* case <-ctx.Done()
LiveStop ==
    /\ livePc = "select"
    /\ ctxDone
    /\ livePc' = "stopped"
    /\ UNCHANGED <<liveUid, living, liveTick, liveIdx, liveOut, liveHist>>
    /\ UNCHANGED <<ctlVars, chanVars, loopVars, nmsg, dynVars>>

\* The body of the range loop up to "continue" or to the send "ch <- msg".
LivePoll(responses) ==
    /\ livePc = "loop"
    /\ \E resp \in responses :
         LET id == liveUid[liveIdx]
             r == getInfo(id, resp)
             it == LiveIteration(living, r, TickTime(liveTick), nmsg)
         IN  /\ living' = it.living
             /\ liveOut' = it.out
             /\ nmsg' = nmsg + Len(it.out)
             /\ lastPoll' = [uid |-> id, seq |-> lastPoll.seq + 1, idx |-> liveIdx,
                             resp |-> resp, before |-> living, out |-> it.out,
                             okBefore |-> lastOk[id], chainBefore |-> chain[id]]
             /\ lastOk' = IF RespKind(resp) = "ok"
                          THEN [lastOk EXCEPT ![id] = StatusName(RespLive(resp))]
                          ELSE lastOk
             /\ chain' = [chain EXCEPT ![id] =
                             CASE RespKind(resp) = "transport" ->
                                    [@ EXCEPT !.built = @ + Len(it.out), !.failed = TRUE]
                               [] RespKind(resp) = "upstream" ->
                                    [last |-> "error", built |-> 0, failed |-> FALSE]
                               [] OTHER ->
                                    [last |-> StatusName(RespLive(resp)), built |-> 0,
                                     failed |-> FALSE]]
             /\ IF it.out = <<>>
                THEN LiveAdvance(liveIdx)
                ELSE livePc' = "send" /\ liveIdx' = liveIdx
    /\ UNCHANGED <<liveUid, liveTick>>
    /\ UNCHANGED <<ctlVars, chanVars, loopVars, dynVars>>

\* The sender's side of a completed "ch <- msg".
LiveSent ==
    /\ livePc = "send"
    /\ emitted' = Append(emitted, Head(liveOut).id)
    /\ liveOut' = Tail(liveOut)
    /\ IF Tail(liveOut) = <<>>
       THEN LiveAdvance(liveIdx)
       ELSE UNCHANGED <<livePc, liveIdx>>
    /\ UNCHANGED <<liveUid, living, liveTick, liveHist>>

\* make(chan *push.Msg, buf): a send completes at once while fewer than buf
\* messages are buffered.
ChanOverfull == Len(ch) <= buf

ChanHasRoom == Len(ch) < buf

\* ch <- msg, when the buffer of ch has room
LiveEmit ==
    /\ livePc = "send"
    /\ ChanHasRoom
    /\ ch' = Append(ch, Head(liveOut))
    /\ LiveSent
    /\ UNCHANGED <<ctlVars, loopVars, nmsg, dynVars>>

(***************************************************************************)
(* Raw feed items: the gjson view of one element of data.items.  A path    *)
(* that is absent reads as the zero value, so an item is a record of what  *)
(* parseDynamic reads, zero where the JSON has nothing.  orig is <<>> when *)
(* absent and <<item>> when present.                                       *)
(***************************************************************************)
ZeroItem ==
    [type |-> "", id_str |-> "", name |-> "", pub_ts |-> 0, text |-> "",
     draw |-> <<>>, major |-> [id |-> "", title |-> "", desc |-> "", cover |-> ""],
     content |-> <<>>, orig |-> <<>>]

\* item.Get("orig"): the embedded item, or a result on which every Get is zero
Orig(item) == IF item.orig = <<>> THEN ZeroItem ELSE item.orig[1]

Nil == [nil |-> TRUE]

\* max returning its second argument
maxSecond(a, b) == b

\* max returning its first argument
maxFirst(a, b) == a

max(a, b) == IF a > b THEN a ELSE b

\* without "if origInfo == nil { return nil }": the repost is kept with
\* what was filled in so far
ForwardInfoPartial(info, item, origInfo) ==
    IF origInfo = Nil THEN [info EXCEPT !.types = TypesForward]
    ELSE IF origInfo.types = DynamicTypeLive
    THEN [info EXCEPT !.types = TypesShareLive,
                      !.text = <<item.text, "\nshared \"", origInfo.author,
                                 "\"'s live room\n">> \o origInfo.text,
                      !.img = origInfo.img]
    ELSE [info EXCEPT !.types = TypesForward,
                      !.text = <<item.text, " \nreposted from: @",
                                 origInfo.author, "\n">> \o origInfo.text,
                      !.img = origInfo.img]

\* case DynamicTypeForward, given origInfo := parseDynamic(&orig)
ForwardInfo(info, item, origInfo) ==
    IF origInfo = Nil THEN Nil
    ELSE IF origInfo.types = DynamicTypeLive
    THEN [info EXCEPT !.types = TypesShareLive,
                      !.text = <<item.text, "\nshared \"", origInfo.author,
                                 "\"'s live room\n">> \o origInfo.text,
                      !.img = origInfo.img]
    ELSE [info EXCEPT !.types = TypesForward,
                      !.text = <<item.text, " \nreposted from: @",
                                 origInfo.author, "\n">> \o origInfo.text,
                      !.img = origInfo.img]

\* case DynamicTypeLive
LiveRcmdInfo(info, item) ==
    IF item.content = <<>> THEN Nil
    ELSE [info EXCEPT !.types = DynamicTypeLive,
                      !.text = <<"title: \"", item.content[1].title, "\"">>,
                      !.img = <<item.content[1].cover>>]

\* an undeclared type answered with nil
DefaultInfoNil(info) == Nil

\* default:
DefaultInfo(info) == [info EXCEPT !.types = TypesPost, !.text = <<TextUnhandled>>]

RECURSIVE parseDynamic(_)
parseDynamic(item) ==
    LET info == [types |-> "", id |-> item.id_str,
                 src |-> <<dynamicUrlPrefix, item.id_str>>,
                 author |-> item.name, times |-> item.pub_ts,
                 text |-> <<>>, img |-> <<>>]
        m == item.major
    IN  CASE item.type = DynamicTypeWord ->
               [info EXCEPT !.types = TypesPost, !.text = <<item.text>>]
          [] item.type = DynamicTypeDraw ->
               [info EXCEPT !.types = TypesPost, !.text = <<item.text>>,
                            !.img = item.draw]
          [] item.type = DynamicTypeAV ->
               [info EXCEPT !.types = TypesVideo, !.id = m.id,
                            !.src = <<videoUrlPrefix, m.id>>,
                            !.text = <<m.title, "\n", m.desc>>,
                            !.img = <<m.cover>>]
          [] item.type = DynamicTypeForward ->
               ForwardInfo(info, item, parseDynamic(Orig(item)))
          [] item.type = DynamicTypeArticle ->
               [info EXCEPT !.types = TypesArticle, !.id = m.id,
                            !.src = <<articleUrlPrefix, m.id>>,
                            !.text = <<m.title, "\n", m.desc>>,
                            !.img = <<m.cover>>]
          [] item.type = DynamicTypeMusic ->
               [info EXCEPT !.types = TypesMusic, !.id = m.id,
                            !.src = <<musicUrlPrefix, m.id>>,
                            !.text = <<m.title>>, !.img = <<m.cover>>]
          [] item.type = DynamicTypePGC ->
               [info EXCEPT !.text = <<m.title>>, !.img = <<m.cover>>]
          [] item.type = DynamicTypeLive -> LiveRcmdInfo(info, item)
          [] OTHER -> DefaultInfo(info)

(***************************************************************************)
(* BiliDynamicSource.space                                                 *)
(***************************************************************************)
\* the floor of an account without entry taken as now
SpaceLastNow(table, id, now) ==
    LET last == MapGet(table, id, 0)
    IN  IF last = 0 THEN now ELSE last

\* b.lastTable[id] taken as it is, zero included
SpaceLastNoFloor(table, id, now) == MapGet(table, id, 0)

\* The floor an item's publish time must exceed: b.lastTable[id], or
\* now - interval while that is zero.
SpaceLast(table, id, now) ==
    LET last == MapGet(table, id, 0)
    IN  IF last = 0 THEN now - interval ELSE last

\* "second >= last" in place of "second > last"
IsNewOrEqual(second, last) == second >= last

\* if second > last: the item is newer than the floor
IsNew(second, last) == second > last

\* the info put in front of infos
KeepFront(infos, e) == <<e>> \o infos

\* infos = append(infos, info)
Keep(infos, e) == Append(infos, e)

\* without the test for a live announcement
IsLiveAnnouncementNever(info) == FALSE

\* if info.types == DynamicTypeLive: a live announcement at the top level
IsLiveAnnouncement(info) == info.types = DynamicTypeLive

\* The loop over items from index i on: [infos, newest].  An entry of infos
\* is the DynamicInfo with, as history, the id_str of the item it came from.
RECURSIVE SpaceScan(_, _, _, _, _)
SpaceScan(items, i, last, newest, infos) ==
    IF i > Len(items) THEN [infos |-> infos, newest |-> newest]
    ELSE LET info == parseDynamic(items[i])
         IN  IF info = Nil THEN SpaceScan(items, i + 1, last, newest, infos)
             ELSE IF IsLiveAnnouncement(info)
             THEN SpaceScan(items, i + 1, last, newest, infos)
             ELSE LET second == info.times
                      kept == IF IsNew(second, last)
                              THEN Keep(infos, [info |-> info, item |-> items[i].id_str])
                              ELSE infos
                  IN  SpaceScan(items, i + 1, last, max(newest, second), kept)

\* space leaving b.lastTable alone when the page has no items
spaceKeepsOnEmpty(table, id, now, resp) ==
    IF resp.kind = "neterr"
    THEN [err |-> "neterr", infos |-> <<>>, table |-> table]
    ELSE IF checkResp(resp).err # "nil"
    THEN [err |-> "read bili resp data", infos |-> <<>>, table |-> table]
    ELSE IF resp.code # 0
    THEN [err |-> resp.msg, infos |-> <<>>, table |-> table]
    ELSE LET last == SpaceLast(table, id, now)
             scan == SpaceScan(resp.items, 1, last, 0, <<>>)
         IN  [err |-> "nil", infos |-> scan.infos,
              table |-> IF resp.items = <<>> THEN table
                        ELSE MapPut(table, id, max(last, scan.newest))]

\* space without "if code != 0": an upstream error read as a page without items
spaceIgnoresCode(table, id, now, resp) ==
    IF resp.kind = "neterr"
    THEN [err |-> "neterr", infos |-> <<>>, table |-> table]
    ELSE IF checkResp(resp).err # "nil"
    THEN [err |-> "read bili resp data", infos |-> <<>>, table |-> table]
    ELSE LET last == SpaceLast(table, id, now)
             scan == SpaceScan(resp.items, 1, last, 0, <<>>)
         IN  [err |-> "nil", infos |-> scan.infos,
              table |-> MapPut(table, id, max(last, scan.newest))]

\* [err, infos, table]: what space returns and the b.lastTable it leaves.
space(table, id, now, resp) ==
    IF resp.kind = "neterr"
    THEN [err |-> "neterr", infos |-> <<>>, table |-> table]
    ELSE IF checkResp(resp).err # "nil"
    THEN [err |-> "read bili resp data", infos |-> <<>>, table |-> table]
    ELSE IF resp.code # 0
    THEN [err |-> resp.msg, infos |-> <<>>, table |-> table]
    ELSE LET last == SpaceLast(table, id, now)
             scan == SpaceScan(resp.items, 1, last, 0, <<>>)
         IN  [err |-> "nil", infos |-> scan.infos,
              table |-> MapPut(table, id, max(last, scan.newest))]

\* msg := &push.Msg{...} of the loop over infos
DynMsg(n, info) ==
    [id |-> n, Times |-> info.times, Flag |-> BiliDynMsg, Author |-> info.author,
     Title |-> info.types, Text |-> info.text, Img |-> info.img, Src |-> info.src]

(***************************************************************************)
(* BiliDynamicSource.Send                                                  *)
(***************************************************************************)
Item(type, id, ts, text) ==
    [ZeroItem EXCEPT !.type = type, !.id_str = id, !.name = "up", !.pub_ts = ts,
                     !.text = text]

T1 == TickTime(1)

\* The items the platform can return for the first account: an old one, two
\* with one publish time, a live announcement, and a later repost of it; for
\* any other account: two new ones.
LiveAnnouncement ==
    [Item(DynamicTypeLive, "f", T1 + 5, "") EXCEPT
        !.content = <<[title |-> "hello", cover |-> "c.jpg"]>>]

MainItems ==
    {Item(DynamicTypeWord, "a", T1 - 20000, "old"),
     Item(DynamicTypeWord, "d", T1 - 1, "Hi"),
     [Item(DynamicTypeAV, "e", T1 - 1, "") EXCEPT
         !.major = [id |-> "BV1", title |-> "t", desc |-> "d", cover |-> "v.jpg"]],
     LiveAnnouncement,
     [Item(DynamicTypeForward, "g", T1 + 8, "check this out") EXCEPT
         !.orig = <<LiveAnnouncement>>]}

OtherItems ==
    {Item(DynamicTypeWord, "x", T1 + 2, "new"),
     Item(DynamicTypeWord, "y", T1 + 3, "newer")}

FeedItems(uid) == IF uid = DynUids[1] THEN MainItems ELSE OtherItems

\* Items around the floor of a first poll at T1: published 5 s, 20000 s and
\* 1 s before it, exactly one interval before it, and a live announcement
\* after it.
FloorItems ==
    {Item(DynamicTypeWord, "p", T1 - 5, "five"),
     Item(DynamicTypeWord, "a", T1 - 20000, "old"),
     Item(DynamicTypeWord, "d", T1 - 1, "Hi"),
     Item(DynamicTypeWord, "b", T1 - interval, "edge"),
     LiveAnnouncement}

\* A live announcement whose major.live_rcmd.content is empty.
EmptyAnnouncement == Item(DynamicTypeLive, "h", T1 - 2, "")

Forward(id, ts, text, orig) ==
    [Item(DynamicTypeForward, id, ts, text) EXCEPT !.orig = <<orig>>]
Major == [id |-> "9", title |-> "t", desc |-> "d", cover |-> "v.jpg"]

\* One item of every declared type, of an undeclared type and of no type,
\* and reposts of them, nested up to three deep.
ClassItems ==
    {[Item(DynamicTypeDraw, "r", T1 - 3, "pics") EXCEPT !.draw = <<"1.jpg", "2.jpg">>],
     [Item(DynamicTypeAV, "e", T1 - 1, "") EXCEPT !.major = Major],
     [Item(DynamicTypeArticle, "c", T1 - 4, "") EXCEPT !.major = Major],
     [Item(DynamicTypeMusic, "k", T1 - 4, "") EXCEPT !.major = Major],
     [Item(DynamicTypePGC, "q", T1 - 4, "") EXCEPT !.major = Major],
     Item("DYNAMIC_TYPE_NONE", "u", T1 - 6, "x"),
     Item("", "m", T1 - 6, "x"),
     EmptyAnnouncement,
     Forward("g", T1 + 8, "check this out", LiveAnnouncement),
     Forward("s", T1 - 2, "look", EmptyAnnouncement),
     Forward("t", T1 - 3, "again",
             Forward("s", T1 - 9, "look", EmptyAnnouncement)),
     Forward("v", T1 - 3, "thrice",
             Forward("t", T1 - 9, "again",
                     Forward("s", T1 - 9, "look", EmptyAnnouncement))),
     Item(DynamicTypeForward, "n", T1 - 4, "gone"),
     Forward("o", T1 - 4, "odd", Item("DYNAMIC_TYPE_NONE", "u", T1 - 6, "x")),
     Forward("w", T1 - 7, "check this out",
             [Item(DynamicTypeWord, "d", T1 - 30, "Hi") EXCEPT !.name = "Alice"]),
     Forward("z", T1 - 7, "twice",
             Forward("w", T1 - 30, "check this out",
                     [Item(DynamicTypeWord, "d", T1 - 30, "Hi") EXCEPT !.name = "Alice"]))}

ScanItems == FloorItems \cup ClassItems

ItemIds == {it.id_str : it \in MainItems \cup OtherItems \cup ScanItems}

\* The pages of at most n items, no item twice in a page.
RECURSIVE Pages(_, _)
Pages(items, n) ==
    IF n = 0 THEN {<<>>}
    ELSE LET shorter == Pages(items, n - 1)
         IN  shorter \cup {Append(q[1], q[2]) :
                              q \in {q \in shorter \X items : q[2] \notin Range(q[1])}}

\* What req.Get(spaceUrl, host_mid) can give.
FeedResponsesOf(items) ==
    {[kind |-> "neterr"], [kind |-> "empty"]}
    \cup {[kind |-> "json", code |-> e.code, msg |-> e.msg, items |-> <<>>] :
            e \in UpstreamErrors}
    \cup {[kind |-> "json", code |-> 0, msg |-> "", items |-> p] :
            p \in Pages(items, MaxPage)}

MainResponses == FeedResponsesOf(MainItems)
OtherResponses == FeedResponsesOf(OtherItems)
FeedResponses(uid) == IF uid = DynUids[1] THEN MainResponses ELSE OtherResponses
FeedResponsesByUid == [uid \in Range(DynUids) |-> FeedResponses(uid)]

\* The pages of a first poll: up to MaxScanPage of the items around the
\* floor, and every one and every two of all the items.
ScanPages ==
    Pages(FloorItems, MaxScanPage)
    \cup {<<x>> : x \in ScanItems}
    \cup {<<q[1], q[2]>> : q \in {q \in ScanItems \X ScanItems : q[1] # q[2]}}

ScanResponses ==
    {[kind |-> "neterr"], [kind |-> "empty"]}
    \cup {[kind |-> "json", code |-> e.code, msg |-> e.msg, items |-> <<>>] :
            e \in UpstreamErrors}
    \cup {[kind |-> "json", code |-> 0, msg |-> "", items |-> p] : p \in ScanPages}
ScanResponsesByUid == [uid \in Range(DynUids) |-> ScanResponses]

\* The pages of the polls after it: one of the items around the floor.
RescanResponses ==
    {[kind |-> "neterr"]}
    \cup {[kind |-> "json", code |-> 0, msg |-> "", items |-> <<x>>] : x \in FloorItems}
RescanResponsesByUid == [uid \in Range(DynUids) |-> RescanResponses]

\* pc and index after the account at index i is done
DynAdvance(i) ==
    IF i < Len(dynUid)
    THEN /\ dynPc' = "loop"
         /\ dynIdx' = i + 1
    ELSE /\ dynPc' = "select"
         /\ dynIdx' = 0

\* The loop over infos builds the message of the first of "infos" and blocks
\* in "ch <- msg"; with no infos the account is done.  "feed" is the history
\* of the call of space the infos came from.
DynBuild(infos, feed) ==
    IF infos = <<>>
    THEN /\ dynOut' = <<>>
         /\ dynInfos' = <<>>
         /\ lastFeed' = feed
         /\ DynAdvance(dynIdx)
         /\ UNCHANGED <<nmsg, dynBuilt>>
    ELSE /\ dynOut' = <<DynMsg(nmsg + 1, Head(infos).info)>>
         /\ dynInfos' = Tail(infos)
         /\ lastFeed' = [feed EXCEPT !.cur = Head(infos).item]
         /\ nmsg' = nmsg + 1
         /\ dynBuilt' = [dynBuilt EXCEPT ![<<dynUid[dynIdx], Head(infos).item>>] = @ + 1]
         /\ dynPc' = "send"
         /\ UNCHANGED dynIdx

\* case now := <-ticker.C
DynTick(limit) ==
    /\ dynPc = "select"
    /\ dynTick < limit
    /\ dynTick' = dynTick + 1
    /\ IF Len(dynUid) = 0
       THEN UNCHANGED <<dynPc, dynIdx>>
       ELSE dynPc' = "loop" /\ dynIdx' = 1
    /\ UNCHANGED <<dynUid, lastTable, dynInfos, dynOut, dynHist>>
    /\ UNCHANGED <<ctlVars, chanVars, loopVars, nmsg, liveVars>>

\* case <-ctx.Done()
DynStop ==
    /\ dynPc = "select"
    /\ ctxDone
    /\ dynPc' = "stopped"
    /\ UNCHANGED <<dynUid, lastTable, dynTick, dynIdx, dynInfos, dynOut, dynHist>>
    /\ UNCHANGED <<ctlVars, chanVars, loopVars, nmsg, liveVars>>

\* history: per uid, the time of the first call of space that returned no error
FirstOk == IF lastFeed.seq = 0 THEN EmptyMap ELSE lastFeed.first

\* infos, err := b.space(id, now), up to "continue" or the first "ch <- msg"
DynPoll(responses) ==
    /\ dynPc = "loop"
    /\ \E resp \in responses[dynUid[dynIdx]] :
         LET id == dynUid[dynIdx]
             r == space(lastTable, id, TickTime(dynTick), resp)
         IN  /\ lastTable' = r.table
             /\ DynBuild(r.infos,
                         [uid |-> id, seq |-> lastFeed.seq + 1, idx |-> dynIdx,
                          now |-> TickTime(dynTick), resp |-> resp,
                          before |-> lastTable, infos |-> r.infos, err |-> r.err,
                          built |-> dynBuilt,
                          parsed |-> IF r.err = "nil"
                                     THEN [i \in DOMAIN resp.items |->
                                             parseDynamic(resp.items[i])]
                                     ELSE <<>>,
                          first |-> IF r.err = "nil" /\ id \notin DOMAIN FirstOk
                                    THEN MapPut(FirstOk, id, TickTime(dynTick))
                                    ELSE FirstOk,
                          cur |-> "", sent |-> <<>>])
    /\ UNCHANGED <<dynUid, dynTick>>
    /\ UNCHANGED <<ctlVars, chanVars, loopVars, liveVars>>

\* The sender's side of a completed "ch <- msg": on to the next info.
DynSent ==
    /\ dynPc = "send"
    /\ emitted' = Append(emitted, Head(dynOut).id)
    /\ DynBuild(dynInfos,
                [lastFeed EXCEPT !.sent = Append(@, [id |-> Head(dynOut).id,
                                                     item |-> lastFeed.cur])])
    /\ UNCHANGED <<dynUid, lastTable, dynTick>>

\* ch <- msg, when the buffer of ch has room
DynEmit ==
    /\ dynPc = "send"
    /\ ChanHasRoom
    /\ ch' = Append(ch, Head(dynOut))
    /\ DynSent
    /\ UNCHANGED <<ctlVars, loopVars, liveVars>>

(***************************************************************************)
(* Bot.Run                                                                 *)
(***************************************************************************)
\* for _, s := range b.sources { go s.Send(ctx, b.ch) }
BotStart ==
    /\ botPc = "init"
    /\ botPc' = "loop"
    /\ livePc' = IF "live" \in sources THEN "select" ELSE livePc
    /\ dynPc' = IF "dyn" \in sources THEN "select" ELSE dynPc
    /\ UNCHANGED <<dequeued, tasks>>
    /\ UNCHANGED <<liveUid, living, liveTick, liveIdx, liveOut, liveHist>>
    /\ UNCHANGED <<dynUid, lastTable, dynTick, dynIdx, dynInfos, dynOut, dynHist>>
    /\ UNCHANGED <<ctlVars, chanVars, nmsg>>

\* The loop over b.sinks ending after its first sink.
SpawnFirstOnly(msg) ==
    [i \in 1..(IF sinks = <<>> THEN 0 ELSE 1) |->
        [sink |-> sinks[i], msg |-> msg, st |-> "spawned"]]

\* for _, s := range b.sinks { go func(s Sink) {...}(s) }: one goroutine per
\* sink, started and not waited for.
Spawn(msg) == [i \in 1..Len(sinks) |-> [sink |-> sinks[i], msg |-> msg, st |-> "spawned"]]

Dispatch(msg) ==
    /\ dequeued' = Append(dequeued, msg.id)
    /\ tasks' = tasks \o Spawn(msg)
    /\ UNCHANGED botPc

\* s.Receive(msg) called without "go": the loop would go on only after it
\* returned.
RunWaitsInline == \E k \in DOMAIN tasks : tasks[k].st \in {"spawned", "running"}

\* "go func(s Sink) {...}(s)": Bot.Run waits for none of the goroutines.
RunWaits == FALSE

\* case msg := <-b.ch, a buffered message
BotRecv ==
    /\ botPc = "loop"
    /\ ~RunWaits
    /\ ch # <<>>
    /\ ch' = Tail(ch)
    /\ Dispatch(Head(ch))
    /\ UNCHANGED <<ctlVars, emitted, nmsg, liveVars, dynVars>>

\* case msg := <-b.ch on an unbuffered channel: the message passes from the
\* blocked sender to the receiver.
BotRecvLive ==
    /\ botPc = "loop"
    /\ ~RunWaits
    /\ buf = 0
    /\ livePc = "send"
    /\ Dispatch(Head(liveOut))
    /\ LiveSent
    /\ UNCHANGED <<ctlVars, ch, nmsg, dynVars>>

BotRecvDyn ==
    /\ botPc = "loop"
    /\ ~RunWaits
    /\ buf = 0
    /\ dynPc = "send"
    /\ Dispatch(Head(dynOut))
    /\ DynSent
    /\ UNCHANGED <<ctlVars, ch, liveVars>>

\* case <-ctx.Done(): return
BotStop ==
    /\ botPc = "loop"
    /\ ~RunWaits
    /\ ctxDone
    /\ botPc' = "stopped"
    /\ UNCHANGED <<dequeued, tasks>>
    /\ UNCHANGED <<ctlVars, chanVars, nmsg, liveVars, dynVars>>

\* What s.Receive(msg) returns: the first sink delivers, any other one fails
\* every delivery.  A Receive that never returns is a task that stays
\* "running".
ReceiveErr(sink) == IF sink = Sinks[1] THEN "nil" ELSE "delivery failed"

\* A started goroutine runs: err := s.Receive(msg) is called.
TaskCall(k) ==
    /\ tasks[k].st = "spawned"
    /\ tasks' = [tasks EXCEPT ![k].st = "running"]
    /\ UNCHANGED <<botPc, dequeued>>
    /\ UNCHANGED <<ctlVars, chanVars, nmsg, liveVars, dynVars>>

\* s.Receive(msg) returns; an error is printed.
TaskReturn(k) ==
    /\ tasks[k].st = "running"
    /\ tasks' = [tasks EXCEPT ![k].st =
                    IF ReceiveErr(tasks[k].sink) = "nil" THEN "returned" ELSE "printed"]
    /\ UNCHANGED <<botPc, dequeued>>
    /\ UNCHANGED <<ctlVars, chanVars, nmsg, liveVars, dynVars>>

\* The caller of Bot.Run cancels the context.
Cancel ==
    /\ ~ctxDone
    /\ ctxDone' = TRUE
    /\ UNCHANGED <<buf, sources, sinks>>
    /\ UNCHANGED <<chanVars, loopVars, nmsg, liveVars, dynVars>>

(***************************************************************************)
(* The live-status poller alone under Bot.Run, no sinks appended           *)
(***************************************************************************)
InitBot(srcs, snks) ==
    /\ ctxDone = FALSE
    /\ buf \in 0..MaxBuf
    /\ sources = srcs
    /\ sinks = snks
    /\ ch = <<>>
    /\ emitted = <<>>
    /\ botPc = "init"
    /\ dequeued = <<>>
    /\ tasks = <<>>
    /\ nmsg = 0

InitLiveSource(uid) ==
    /\ liveUid = uid
    /\ living = EmptyMap
    /\ livePc = "unstarted"
    /\ liveTick = 0
    /\ liveIdx = 0
    /\ liveOut = <<>>
    /\ lastPoll = NoPoll
    /\ lastOk = [u \in Range(LiveUids) |-> "none"]
    /\ chain = [u \in Range(LiveUids) |-> [last |-> "none", built |-> 0, failed |-> FALSE]]

InitDynSource(uid) ==
    /\ dynUid = uid
    /\ lastTable = EmptyMap
    /\ dynPc = "unstarted"
    /\ dynTick = 0
    /\ dynIdx = 0
    /\ dynInfos = <<>>
    /\ dynOut = <<>>
    /\ dynBuilt = [k \in Range(DynUids) \X ItemIds |-> 0]
    /\ lastFeed = NoPoll

InitLive == InitBot({"live"}, <<>>) /\ InitLiveSource(LiveUids) /\ InitDynSource(<<>>)

NextLive ==
    \/ BotStart
    \/ BotRecv
    \/ BotRecvLive
    \/ BotStop
    \/ Cancel
    \/ LiveTick(MaxLiveTicks)
    \/ LiveStop
    \/ LivePoll(LiveResponses)
    \/ LiveEmit

SpecLive == InitLive /\ [][NextLive]_vars

(***************************************************************************)
(* The feed poller alone under Bot.Run, no sinks appended                  *)
(***************************************************************************)
InitFeed == InitBot({"dyn"}, <<>>) /\ InitLiveSource(<<>>) /\ InitDynSource(DynUids)

NextFeed ==
    \/ BotStart
    \/ BotRecv
    \/ BotRecvDyn
    \/ BotStop
    \/ Cancel
    \/ DynTick(MaxDynTicks)
    \/ DynStop
    \/ DynPoll(FeedResponsesByUid)
    \/ DynEmit

SpecFeed == InitFeed /\ [][NextFeed]_vars

(***************************************************************************)
(* The feed poller of one account under Bot.Run with an unbuffered channel.*)
(* Up to the first call of space that returns no error the platform        *)
(* answers with any page of ScanPages, after it with one of the items      *)
(* around the floor.                                                       *)
(***************************************************************************)
InitScan ==
    /\ InitBot({"dyn"}, <<>>)
    /\ buf = 0
    /\ InitLiveSource(<<>>)
    /\ InitDynSource(<<DynUids[1]>>)

NextScan ==
    \/ BotStart
    \/ BotRecvDyn
    \/ DynTick(MaxDynTicks)
    \/ (DynUids[1] \notin DOMAIN lastTable /\ DynPoll(ScanResponsesByUid))
    \/ (DynUids[1] \in DOMAIN lastTable /\ DynPoll(RescanResponsesByUid))

SpecScan == InitScan /\ [][NextScan]_vars


(***************************************************************************)
(* Both sources under Bot.Run, one account each, no sinks appended.  The    *)
(* responses are the ones that decide how many messages an iteration sends.*)
(***************************************************************************)
BotLiveResponses ==
    {r \in LiveResponses :
        r.kind = "neterr" \/ (RespKind(r) = "ok" /\ r.live_room.liveStatus < 2)}
BotFeedResponses(uid) ==
    {r \in OtherResponses : r.kind = "neterr" \/ (r.kind = "json" /\ r.code = 0)}
BotFeedResponsesByUid == [uid \in Range(DynUids) |-> BotFeedResponses(uid)]

InitBoth ==
    /\ InitBot({"live", "dyn"}, <<>>)
    /\ InitLiveSource(<<LiveUids[1]>>)
    /\ InitDynSource(<<DynUids[2]>>)

NextBoth ==
    \/ BotStart
    \/ BotRecv
    \/ BotRecvLive
    \/ BotRecvDyn
    \/ BotStop
    \/ Cancel
    \/ LiveTick(MaxBotTicks)
    \/ LiveStop
    \/ LivePoll(BotLiveResponses)
    \/ LiveEmit
    \/ DynTick(MaxBotTicks)
    \/ DynStop
    \/ DynPoll(BotFeedResponsesByUid)
    \/ DynEmit

SpecBoth == InitBoth /\ [][NextBoth]_vars

\* The same under the scheduling most favourable to stopping: every
\* goroutine that can run does run, and a select that finds ctx.Done() ready
\* takes it (the ticker fires once in 10 s, so a loop back at its select after
\* the cancellation finds no tick waiting).
NextBothPrompt ==
    \/ BotStart
    \/ BotRecv
    \/ BotRecvLive
    \/ BotRecvDyn
    \/ BotStop
    \/ Cancel
    \/ (~ctxDone /\ LiveTick(MaxBotTicks))
    \/ LiveStop
    \/ LivePoll(BotLiveResponses)
    \/ LiveEmit
    \/ (~ctxDone /\ DynTick(MaxBotTicks))
    \/ DynStop
    \/ DynPoll(BotFeedResponsesByUid)
    \/ DynEmit

FairBoth ==
    /\ WF_vars(BotStart)
    /\ WF_vars(BotRecv)
    /\ WF_vars(BotRecvLive)
    /\ WF_vars(BotRecvDyn)
    /\ WF_vars(BotStop)
    /\ WF_vars(LiveStop)
    /\ WF_vars(LivePoll(BotLiveResponses))
    /\ WF_vars(LiveEmit)
    /\ WF_vars(DynStop)
    /\ WF_vars(DynPoll(BotFeedResponsesByUid))
    /\ WF_vars(DynEmit)

SpecBothFair == InitBoth /\ [][NextBothPrompt]_vars /\ FairBoth

(***************************************************************************)
(* The live-status poller under Bot.Run with two sinks appended            *)
(***************************************************************************)
InitFan == InitBot({"live"}, Sinks) /\ InitLiveSource(LiveUids) /\ InitDynSource(<<>>)

NextFan ==
    \/ BotStart
    \/ BotRecv
    \/ BotRecvLive
    \/ BotStop
    \/ Cancel
    \/ LiveTick(MaxFanTicks)
    \/ LiveStop
    \/ LivePoll(BotLiveResponses)
    \/ LiveEmit
    \/ \E k \in DOMAIN tasks : TaskCall(k)
    \/ \E k \in DOMAIN tasks : TaskReturn(k)

SpecFan == InitFan /\ [][NextFan]_vars

(***************************************************************************)
(* Properties of the live-status poller, over the last iteration recorded  *)
(* in lastPoll.  b.living changes only in an iteration, so "living" is the *)
(* table that iteration left.                                              *)
(***************************************************************************)
Polled == lastPoll.seq > 0
Occurrences(seq, x) == Cardinality({i \in DOMAIN seq : seq[i] = x})

\* How many times the iteration's message has been or is being sent on ch.
SendsOf(m) ==
    Occurrences(emitted, m.id)
    + (IF livePc = "send" /\ liveOut # <<>> /\ Head(liveOut) = m THEN 1 ELSE 0)

PollChanged ==
    /\ Polled
    /\ RespKind(lastPoll.resp) = "ok"
    /\ RespLive(lastPoll.resp) # MapGet(lastPoll.before, lastPoll.uid, FALSE)

\* C1: a successful poll whose status differs from the recorded one (absent
\* read as false) sends exactly one message and records the new status: going
\* live, the "went live" message with the stream title in its text, the cover
\* as its only image and a link ending in the room id, and the entry becomes
\* true; going offline, the "went offline" message, and the entry becomes false.
C1_Transition ==
    PollChanged =>
        LET room == lastPoll.resp.live_room
            m == lastPoll.out[1]
        IN  /\ Len(lastPoll.out) = 1
            /\ SendsOf(m) = 1
            /\ m.Flag = BiliLiveMsg
            /\ lastPoll.uid \in DOMAIN living
            /\ living[lastPoll.uid] = RespLive(lastPoll.resp)
            /\ IF RespLive(lastPoll.resp)
               THEN /\ m.Title = TitleWentLive
                    /\ room.title \in Range(m.Text)
                    /\ m.Img = <<room.cover>>
                    /\ m.Src = <<liveUrlPrefix, ToString(room.roomid)>>
               ELSE /\ m.Title = TitleWentOffline
                    /\ m.Text = <<TextOffline>>

\* a poll that went offline from a recorded "live"
C1_Witness ==
    /\ PollChanged
    /\ ~RespLive(lastPoll.resp)
    /\ lastPoll.okBefore = "live"
    /\ Len(lastPoll.out) = 1
    /\ lastPoll.out[1].id \in Range(dequeued)

\* C2: a successful poll that reports the status of the previous successful
\* poll of the account, with nothing but transport failures in between, finds
\* no message built for the account since that poll and builds none; so does
\* the first successful poll of an account when it reports not-live.
C2_NoRepeat ==
    (Polled /\ RespKind(lastPoll.resp) = "ok") =>
        LET now == StatusName(RespLive(lastPoll.resp))
        IN  /\ lastPoll.chainBefore.last = now =>
                 lastPoll.chainBefore.built + Len(lastPoll.out) = 0
            /\ (lastPoll.okBefore = "none" /\ now = "off") => lastPoll.out = <<>>

\* two successful polls reporting live with a transport failure between them
C2_Witness ==
    /\ Polled
    /\ RespKind(lastPoll.resp) = "ok"
    /\ RespLive(lastPoll.resp)
    /\ lastPoll.chainBefore.last = "live"
    /\ lastPoll.chainBefore.failed
    /\ lastPoll.out = <<>>

\* C3: the entry of every account, absent read as false, is the status that
\* the account's last successful poll reported, and false if there was none.
C3_TableIsLastOk ==
    \A u \in Range(LiveUids) : MapGet(living, u, FALSE) = (lastOk[u] = "live")

\* a recorded "live" survives an upstream error
C3_Witness ==
    /\ Polled
    /\ RespKind(lastPoll.resp) = "upstream"
    /\ lastOk[lastPoll.uid] = "live"
    /\ MapGet(living, lastPoll.uid, FALSE)

ErrorCode(resp) == IF resp.code # 0 THEN resp.code ELSE NoLiveRoomCode
ErrorMsg(resp) == IF resp.code # 0 THEN resp.msg ELSE MsgNoLiveRoom

\* C4: a poll that upstream answers with a non-zero code, or without
\* live_room (code 400), sends exactly one live-status message with the
\* failure title and the error message and code as text, and leaves the table
\* as it was.
C4_UpstreamError ==
    (Polled /\ RespKind(lastPoll.resp) = "upstream") =>
        LET m == lastPoll.out[1]
        IN  /\ Len(lastPoll.out) = 1
            /\ SendsOf(m) = 1
            /\ m.Flag = BiliLiveMsg
            /\ m.Title = TitleFetchFailed
            /\ m.Text = <<"[error] ", ErrorMsg(lastPoll.resp), ", code=",
                          ToString(ErrorCode(lastPoll.resp))>>
            /\ living = lastPoll.before

\* a response without live_room for an account recorded live
C4_Witness ==
    /\ Polled
    /\ RespKind(lastPoll.resp) = "upstream"
    /\ lastPoll.resp.code = 0
    /\ MapGet(lastPoll.before, lastPoll.uid, FALSE)
    /\ Len(lastPoll.out) = 1

\* C5: a poll whose fetch fails (transport error or empty body) builds no
\* message, leaves the table as it was, and the loop goes on to the next
\* account of the tick.
C5_TransportFailure ==
    (Polled /\ RespKind(lastPoll.resp) = "transport") =>
        /\ lastPoll.out = <<>>
        /\ liveOut = <<>>
        /\ living = lastPoll.before
        /\ lastPoll.idx < Len(liveUid) =>
             /\ livePc = "loop"
             /\ liveIdx = lastPoll.idx + 1
             /\ ENABLED LivePoll(LiveResponses)

\* an empty body for the first account, recorded live, the second still to poll
C5_Witness ==
    /\ Polled
    /\ lastPoll.resp.kind = "empty"
    /\ lastPoll.idx = 1
    /\ MapGet(living, lastPoll.uid, FALSE)
    /\ livePc = "loop"
    /\ liveIdx = 2

(***************************************************************************)
(* Cancellation, fan-out and the queue                                     *)
(***************************************************************************)
Started(src) == src \in sources
AllStopped ==
    /\ botPc = "stopped"
    /\ Started("live") => livePc = "stopped"
    /\ Started("dyn") => dynPc = "stopped"

\* C6: once the context is cancelled, Bot.Run and the Send loop of every
\* source eventually stop, a source blocked in "ch <- msg" included.
C6_CancelStopsAll == ctxDone ~> AllStopped

IdsOf(msgs) == [i \in DOMAIN msgs |-> msgs[i].id]
TasksFor(sink, id) == {k \in DOMAIN tasks : tasks[k].sink = sink /\ tasks[k].msg.id = id}

\* C7: for every message Bot.Run received, exactly one goroutine per appended
\* sink holds that message, and nothing else was started; a started goroutine
\* can call Receive whatever the other goroutines do; and neither the loop of
\* Bot.Run nor a source's send waits for a Receive to return.
C7_FanOut ==
    /\ \A i \in DOMAIN dequeued : \A j \in DOMAIN sinks :
         Cardinality(TasksFor(sinks[j], dequeued[i])) = 1
    /\ Len(tasks) = Len(dequeued) * Len(sinks)
    /\ \A k \in DOMAIN tasks : \A l \in DOMAIN tasks :
         tasks[k].msg.id = tasks[l].msg.id => tasks[k].msg = tasks[l].msg
    /\ \A k \in DOMAIN tasks : tasks[k].st = "spawned" => ENABLED TaskCall(k)
    /\ (botPc = "loop" /\ ch # <<>>) => ENABLED BotRecv
    /\ (botPc = "loop" /\ buf = 0 /\ livePc = "send") => ENABLED BotRecvLive
    /\ (botPc = "loop" /\ ctxDone) => ENABLED BotStop
    /\ (livePc = "send" /\ Len(ch) < buf) => ENABLED LiveEmit

\* two messages received; the failing sink is still inside Receive for the
\* first one, and the other sink has returned from both
C7_Witness ==
    /\ Len(dequeued) >= 2
    /\ \E k \in TasksFor(Sinks[2], dequeued[1]) : tasks[k].st = "running"
    /\ \A i \in DOMAIN dequeued :
         \E k \in TasksFor(Sinks[1], dequeued[i]) : tasks[k].st = "returned"

PendingIds ==
    {m.id : m \in (IF livePc = "send" THEN Range(liveOut) ELSE {})
                  \cup (IF dynPc = "send" THEN Range(dynOut) ELSE {})}

Fed == lastFeed.seq > 0
FedOk == Fed /\ lastFeed.resp.kind = "json" /\ lastFeed.resp.code = 0

\* C9: at most one message is ever built from an item of an account.
C9_AtMostOnce == \A k \in DOMAIN dynBuilt : dynBuilt[k] <= 1

\* a page brings back an item sent after an earlier poll, beside an item
\* with the same publish time, and neither is sent
C9_Witness ==
    /\ FedOk
    /\ lastFeed.infos = <<>>
    /\ \E i \in DOMAIN lastFeed.resp.items : \E j \in DOMAIN lastFeed.resp.items :
         /\ i # j
         /\ lastFeed.resp.items[i].pub_ts = lastFeed.resp.items[j].pub_ts
         /\ dynBuilt[<<lastFeed.uid, lastFeed.resp.items[i].id_str>>] = 1
         /\ dynBuilt[<<lastFeed.uid, lastFeed.resp.items[j].id_str>>] = 0

\* C10: an entry of lastTable stays, and its value never decreases.
C10_Monotone ==
    [][\A u \in DOMAIN lastTable :
          u \in DOMAIN lastTable' /\ lastTable'[u] >= lastTable[u]]_vars

\* a page with an item older than the entry, which stays as it was
C10_Witness ==
    /\ FedOk
    /\ lastFeed.uid \in DOMAIN lastFeed.before
    /\ \E i \in DOMAIN lastFeed.resp.items :
         lastFeed.resp.items[i].pub_ts < lastFeed.before[lastFeed.uid]
    /\ lastTable[lastFeed.uid] = lastFeed.before[lastFeed.uid]

(***************************************************************************)
(* The watermark a call of space leaves.  FeedFloor is the value the items *)
(* are compared with: the entry of the account, or now - interval while    *)
(* the account has none.                                                   *)
(***************************************************************************)
FeedFloor == IF lastFeed.uid \in DOMAIN lastFeed.before
             THEN lastFeed.before[lastFeed.uid]
             ELSE lastFeed.now - interval
SetMax(S) == CHOOSE x \in S : \A y \in S : y <= x
\* Items of the last poll that classified to a record which is no live
\* announcement: the ones whose publish time space looks at.
Counted == {i \in DOMAIN lastFeed.parsed :
              /\ lastFeed.parsed[i] # Nil
              /\ lastFeed.parsed[i].types # DynamicTypeLive}

\* C11: after a successful poll that returned at least one item, the
\* watermark of the account is the maximum of its previous value and the
\* largest publish time among all the items of the poll, live announcements
\* and suppressed items included.
C11_AdvanceAllItems ==
    (FedOk /\ lastFeed.resp.items # <<>>) =>
        lastTable[lastFeed.uid] =
            SetMax({FeedFloor} \cup {lastFeed.resp.items[i].pub_ts :
                                       i \in DOMAIN lastFeed.resp.items})

\* C11 as amended: the watermark is the maximum of its previous value and the
\* largest publish time among the items that classified to a record other
\* than a top-level live announcement, emitted or not.
C11_AdvanceClassified ==
    (FedOk /\ lastFeed.resp.items # <<>>) =>
        lastTable[lastFeed.uid] =
            SetMax({FeedFloor} \cup {lastFeed.resp.items[i].pub_ts : i \in Counted})

\* a poll whose newest item is a live announcement and which advanced the
\* watermark to an older, already published item
C11_Witness ==
    /\ FedOk
    /\ \E i \in Counted : lastTable[lastFeed.uid] = lastFeed.resp.items[i].pub_ts
    /\ lastTable[lastFeed.uid] > FeedFloor
    /\ \E j \in DOMAIN lastFeed.resp.items :
         /\ j \notin Counted
         /\ lastFeed.resp.items[j].pub_ts > lastTable[lastFeed.uid]

(***************************************************************************)
(* What the last call of space handed to the loop over infos, and what     *)
(* that loop has sent so far, as the id_str of the items.                  *)
(***************************************************************************)
FeedDue == [k \in DOMAIN lastFeed.infos |-> lastFeed.infos[k].item]
FeedSent == [k \in DOMAIN lastFeed.sent |-> lastFeed.sent[k].item]
FeedDone == dynPc # "send"
FirstPoll == FedOk /\ lastFeed.uid \notin DOMAIN lastFeed.before
PubTimes == [i \in DOMAIN lastFeed.resp.items |-> lastFeed.resp.items[i].pub_ts]
ScenarioC ==
    /\ FirstPoll
    /\ lastFeed.uid = DynUids[1]
    /\ PubTimes = <<lastFeed.now - 5, lastFeed.now - 20000, lastFeed.now - 1>>
    /\ \A i \in DOMAIN lastFeed.resp.items :
         lastFeed.resp.items[i].type = DynamicTypeWord

\* C12: a first poll of account 7 at T that returns items published at T-5,
\* T-20000 and T-1 emits only the item published at T-1, and the watermark
\* becomes T-1.
C12_ScenarioC ==
    ScenarioC =>
        /\ FeedDue = <<lastFeed.resp.items[3].id_str>>
        /\ FeedDone => FeedSent = FeedDue
        /\ lastTable[lastFeed.uid] = lastFeed.now - 1

\* C12 as amended: the poll emits the items published at T-5 and T-1, in that
\* order, the one published at T-20000 is not emitted, and the watermark
\* becomes T-1.
C12_ScenarioCBoth ==
    ScenarioC =>
        /\ FeedDue = <<lastFeed.resp.items[1].id_str, lastFeed.resp.items[3].id_str>>
        /\ FeedDone => FeedSent = FeedDue
        /\ \A k \in DOMAIN FeedSent : FeedSent[k] = FeedDue[k]
        /\ lastTable[lastFeed.uid] = lastFeed.now - 1

\* the scenario, all its messages sent
C12_Witness ==
    /\ ScenarioC
    /\ FeedDone
    /\ Len(FeedSent) = 2
    /\ Len(dequeued) = 2

FeedFailed ==
    /\ Fed
    /\ \/ lastFeed.resp.kind \in {"neterr", "empty"}
       \/ lastFeed.resp.kind = "json" /\ lastFeed.resp.code # 0

\* C13: when the fetch for an account fails (transport error, empty body or
\* a non-zero upstream code), no message is built or sent for the account in
\* that tick, lastTable stays as it was, and the loop goes on to the next
\* account of the tick.
C13_FeedFailure ==
    FeedFailed =>
        /\ lastFeed.infos = <<>>
        /\ FeedSent = <<>>
        /\ dynOut = <<>>
        /\ dynPc # "send"
        /\ lastTable = lastFeed.before
        /\ lastFeed.idx < Len(dynUid) =>
             /\ dynPc = "loop"
             /\ dynIdx = lastFeed.idx + 1
             /\ dynTick = (lastFeed.now - T0) \div interval
             /\ ENABLED DynPoll(FeedResponsesByUid)

\* an upstream error for the first account, which has no entry yet, the
\* second account still to poll
C13_Witness ==
    /\ FeedFailed
    /\ lastFeed.resp.kind = "json"
    /\ lastFeed.idx = 1
    /\ lastFeed.uid \notin DOMAIN lastTable
    /\ dynPc = "loop"
    /\ dynIdx = 2

\* The items of the last poll that pass the filters: classified to a record,
\* no live announcement, published after the floor; Passing is their id_str
\* in the order of the page.
PassIdx == {i \in Counted : lastFeed.resp.items[i].pub_ts > FeedFloor}
NthOf(S, k) == CHOOSE i \in S : Cardinality({j \in S : j <= i}) = k
Passing == [k \in 1..Cardinality(PassIdx) |->
              lastFeed.resp.items[NthOf(PassIdx, k)].id_str]

\* C14: the messages one account's poll puts on ch are the items that pass
\* the filters, one message each, in the order of the page; they follow one
\* another in the order of sends on ch, and the next account is not polled
\* before the last of them is sent.
C14_EmissionOrder ==
    FedOk =>
        /\ Len(FeedSent) <= Len(Passing)
        /\ \A k \in DOMAIN FeedSent : FeedSent[k] = Passing[k]
        /\ FeedDone <=> Len(FeedSent) = Len(Passing)
        /\ Len(FeedSent) <= Len(emitted)
        /\ \A k \in DOMAIN FeedSent :
             emitted[Len(emitted) - Len(FeedSent) + k] = lastFeed.sent[k].id
        /\ ~FeedDone => ~ENABLED DynPoll(FeedResponsesByUid)

\* the second account of a tick has sent its two messages, in the order of
\* its page, after the first account sent one
C14_Witness ==
    /\ FedOk
    /\ lastFeed.idx = 2
    /\ FeedDone
    /\ Len(FeedSent) = 2
    /\ Len(emitted) >= 3
    /\ lastFeed.resp.items[1].pub_ts > lastFeed.resp.items[2].pub_ts

(***************************************************************************)
(* Properties of parseDynamic, over the items of the last poll and the     *)
(* classification space got for each of them.                              *)
(***************************************************************************)
RECURSIVE Depth(_)
Depth(item) == IF item.orig = <<>> THEN 0 ELSE 1 + Depth(item.orig[1])
IsRepost(item) == item.type = DynamicTypeForward
\* the messages built from the item of the last poll at index i
BuiltFrom(i) == dynBuilt[<<lastFeed.uid, lastFeed.resp.items[i].id_str>>]

\* C15: a repost whose embedded original classifies as suppressed, however
\* deep the nesting, is suppressed itself, is not among the infos space
\* returns, and no message is built from it.
C15_SuppressionPropagates ==
    FedOk =>
        \A i \in DOMAIN lastFeed.resp.items :
            LET item == lastFeed.resp.items[i]
            IN  (IsRepost(item) /\ parseDynamic(Orig(item)) = Nil) =>
                    /\ lastFeed.parsed[i] = Nil
                    /\ item.id_str \notin Range(FeedDue)
                    /\ BuiltFrom(i) = 0

\* a repost of a repost of a repost of an announcement without content, after
\* the first poll published beside an item that was sent
C15_Witness ==
    /\ FedOk
    /\ FeedDone
    /\ Len(FeedSent) = 1
    /\ \E i \in DOMAIN lastFeed.resp.items :
         /\ IsRepost(lastFeed.resp.items[i])
         /\ Depth(lastFeed.resp.items[i]) = 3
         /\ lastFeed.resp.items[i].pub_ts > FeedFloor
         /\ lastFeed.parsed[i] = Nil

\* The items of a first poll at lastFeed.now that are not suppressed, no live
\* announcement, and published after now - interval.
AfterFirstFloor ==
    {i \in DOMAIN lastFeed.resp.items :
        /\ lastFeed.parsed[i] # Nil
        /\ lastFeed.resp.items[i].type # DynamicTypeLive
        /\ lastFeed.resp.items[i].pub_ts > lastFeed.now - interval}

\* C16: the first poll of an account that space answers without error, at
\* time T, hands on and sends exactly the items that are not suppressed, no
\* live announcement and published after T - interval; and no message is ever
\* built from an item of the account published at or before T - interval.
C16_FirstPollFloor ==
    /\ FirstPoll =>
         /\ Range(FeedDue) = {lastFeed.resp.items[i].id_str : i \in AfterFirstFloor}
         /\ Len(FeedDue) = Cardinality(AfterFirstFloor)
         /\ FeedDone => FeedSent = FeedDue
    /\ \A u \in DOMAIN FirstOk : \A it \in ScanItems :
         it.pub_ts <= FirstOk[u] - interval => dynBuilt[<<u, it.id_str>>] = 0

\* a first poll whose page holds an item published exactly one interval
\* before it, which is not sent, and a later one, which is
C16_Witness ==
    /\ FirstPoll
    /\ FeedDone
    /\ Len(FeedSent) = 1
    /\ \E i \in DOMAIN lastFeed.resp.items :
         /\ lastFeed.resp.items[i].pub_ts = lastFeed.now - interval
         /\ lastFeed.resp.items[i].type = DynamicTypeWord
         /\ BuiltFrom(i) = 0

IsAnnouncement(item) == item.type = DynamicTypeLive
SharesAnnouncement(item) ==
    /\ IsRepost(item)
    /\ item.orig # <<>>
    /\ IsAnnouncement(item.orig[1])
    /\ item.orig[1].content # <<>>
InFlight == Range(ch) \cup Range(dynOut)

\* C17: no message is ever built from a live announcement that is an item of
\* the page itself; a repost whose embedded original is a live announcement
\* with content is classified as a shared live room, and when published after
\* the watermark it is handed on and sent, with the shared-live-room title
\* and the announcement's text and image.
C17_AnnouncementAsymmetry ==
    /\ \A k \in DOMAIN dynBuilt : \A it \in FeedItems(k[1]) :
         (IsAnnouncement(it) /\ it.id_str = k[2]) => dynBuilt[k] = 0
    /\ \A m \in InFlight : m.Title # DynamicTypeLive
    /\ FedOk =>
         \A i \in DOMAIN lastFeed.resp.items :
             LET item == lastFeed.resp.items[i]
             IN  (SharesAnnouncement(item) /\ item.pub_ts > FeedFloor) =>
                     /\ lastFeed.parsed[i].types = TypesShareLive
                     /\ item.id_str \in Range(FeedDue)
                     /\ FeedDone => item.id_str \in Range(FeedSent) /\ BuiltFrom(i) = 1
                     /\ (dynPc = "send" /\ lastFeed.cur = item.id_str) =>
                          /\ dynOut[1].Title = TypesShareLive
                          /\ item.orig[1].content[1].title \in Range(dynOut[1].Text)
                          /\ dynOut[1].Img = <<item.orig[1].content[1].cover>>

\* a page with a live announcement and a repost of it, both published after
\* a watermark set by an earlier poll: the repost was sent, the announcement
\* was not
C17_Witness ==
    /\ FedOk
    /\ FeedDone
    /\ lastFeed.uid \in DOMAIN lastFeed.before
    /\ \E i \in DOMAIN lastFeed.resp.items : \E j \in DOMAIN lastFeed.resp.items :
         /\ IsAnnouncement(lastFeed.resp.items[i])
         /\ lastFeed.resp.items[i].pub_ts > FeedFloor
         /\ BuiltFrom(i) = 0
         /\ SharesAnnouncement(lastFeed.resp.items[j])
         /\ lastFeed.resp.items[j].id_str \in Range(FeedSent)

ZeroItemPoll == FedOk /\ lastFeed.resp.items = <<>>

\* C18: a poll answered without error and without items leaves lastTable as
\* it was, also when the account had no entry.
C18_ZeroItemFrame == ZeroItemPoll => lastTable = lastFeed.before

\* C18 as amended: such a poll leaves the entry of the account as it was when
\* there was one; when there was none, the entry becomes the time of the
\* poll minus the interval.  The entries of the other accounts stay.
C18_ZeroItemInit ==
    ZeroItemPoll =>
        /\ DOMAIN lastTable = DOMAIN lastFeed.before \cup {lastFeed.uid}
        /\ \A u \in DOMAIN lastFeed.before : lastTable[u] = lastFeed.before[u]
        /\ lastFeed.uid \notin DOMAIN lastFeed.before =>
             lastTable[lastFeed.uid] = lastFeed.now - interval
        /\ lastFeed.infos = <<>>

\* a page without items for the second account, which had no entry, at the
\* second tick
C18_Witness ==
    /\ ZeroItemPoll
    /\ lastFeed.idx = 2
    /\ lastFeed.now > T1
    /\ lastFeed.uid \notin DOMAIN lastFeed.before
    /\ lastTable[lastFeed.uid] = lastFeed.now - interval

\* the messages built from the item at index i before the last poll
BuiltBefore(i) == lastFeed.built[<<lastFeed.uid, lastFeed.resp.items[i].id_str>>]

\* C19: an item published exactly at the account's watermark is taken as seen:
\* it is not handed on and no message is built from it by the poll; every
\* item handed on is published strictly after the watermark.
C19_Boundary ==
    FedOk =>
        \A i \in DOMAIN lastFeed.resp.items :
            LET item == lastFeed.resp.items[i]
            IN  /\ item.pub_ts = FeedFloor =>
                     /\ item.id_str \notin Range(FeedDue)
                     /\ BuiltFrom(i) = BuiltBefore(i)
                /\ item.id_str \in Range(FeedDue) => item.pub_ts > FeedFloor

\* a page with an item never sent, published exactly at the watermark an
\* earlier poll left, and a later item, which was sent
C19_Witness ==
    /\ FedOk
    /\ FeedDone
    /\ lastFeed.uid \in DOMAIN lastFeed.before
    /\ Len(FeedSent) = 1
    /\ \E i \in DOMAIN lastFeed.resp.items :
         /\ lastFeed.resp.items[i].pub_ts = lastFeed.before[lastFeed.uid]
         /\ lastFeed.resp.items[i].type # DynamicTypeLive
         /\ BuiltFrom(i) = 0

\* The item a chain of reposts ends in; an absent orig reads as an item
\* without type.
RECURSIVE Bottom(_)
Bottom(item) == IF IsRepost(item) THEN Bottom(Orig(item)) ELSE item
EmptyPayload(item) == IsAnnouncement(item) /\ item.content = <<>>
DeclaredTypes ==
    {DynamicTypeForward, DynamicTypeDraw, DynamicTypeAV, DynamicTypeWord,
     DynamicTypeArticle, DynamicTypeMusic, DynamicTypePGC, DynamicTypeLive}
InfoFields == {"types", "id", "src", "author", "times", "text", "img"}

\* C20: parseDynamic returns for every item of a page, of a declared type, an
\* undeclared type or no type, nested up to three reposts deep, either nil or
\* a record with every field of DynamicInfo; it returns nil exactly for a
\* live announcement without content and for a repost whose embedded
\* original classifies as nil, that is when the chain of reposts ends in a
\* live announcement without content.  A repost without orig, or of an item
\* of an undeclared type, gets a record, and an item of an undeclared type
\* the generic one.
C20_Totality ==
    FedOk =>
        /\ DOMAIN lastFeed.parsed = DOMAIN lastFeed.resp.items
        /\ \A i \in DOMAIN lastFeed.resp.items :
             LET item == lastFeed.resp.items[i]
                 info == lastFeed.parsed[i]
             IN  /\ info # Nil => DOMAIN info = InfoFields
                 /\ info = Nil <=>
                        \/ EmptyPayload(item)
                        \/ IsRepost(item) /\ parseDynamic(Orig(item)) = Nil
                 /\ info = Nil <=> EmptyPayload(Bottom(item))
                 /\ (IsRepost(item) /\ item.orig = <<>>) => info # Nil
                 /\ (IsRepost(item) /\ Orig(item).type \notin DeclaredTypes) => info # Nil
                 /\ item.type \notin DeclaredTypes =>
                        info # Nil /\ info.types = TypesPost /\ info.text = <<TextUnhandled>>

\* a page with a repost without orig and an item without type, both sent
C20_Witness ==
    /\ FedOk
    /\ FeedDone
    /\ Len(FeedSent) = 2
    /\ \E i \in DOMAIN lastFeed.resp.items : \E j \in DOMAIN lastFeed.resp.items :
         /\ IsRepost(lastFeed.resp.items[i])
         /\ lastFeed.resp.items[i].orig = <<>>
         /\ lastFeed.parsed[i] # Nil
         /\ lastFeed.resp.items[j].type = ""
         /\ lastFeed.parsed[j] # Nil

====
